---------------------------- MODULE Spec2Model ----------------------------
(***************************************************************************)
(* roq: verification of one credential against a named third-party         *)
(* service (src/main.go).  The model covers the dispatcher verifyAPIKey,   *)
(* the HTTP strategy verifyHTTP, the AWS strategy verifyAWS and the pure    *)
(* helpers maskKey, flattenJSON and renderTemplate.                         *)
(*                                                                         *)
(* Strings that the code slices, lower-cases or concatenates are sequences *)
(* of atoms: an atom is one character ("A", "k", "*") or a literal of the   *)
(* source that is lower-case already ("unsupported service: ").  The empty *)
(* Go string is the empty sequence.  JSON object keys and config field     *)
(* names are TLA+ strings.                                                 *)
(***************************************************************************)
EXTENDS Integers, Sequences, FiniteSets, TLC

VARIABLES
    pc,         \* "idle" | "http" (request in flight) | "sts" (STS call in flight) | "done"
                \* ("mask", "masked", "flatten", "flattened" in the pure-function specifications)
    service,    \* the -s flag as supplied
    key,        \* the -k flag
    secret,     \* the -secret flag
    now,        \* the wall clock read by time.Now()
    result,     \* the VerificationResult under construction / returned
    req,        \* the outbound request in flight, or NoRequest
    resp,       \* what came back from the remote side, or NoResponse
    flattened,  \* the flattened response map of verifyHTTP / the flattening specification
    requests    \* number of outbound requests issued by this call

vars == <<pc, service, key, secret, now, result, req, resp, flattened, requests>>

---------------------------------------------------------------------------
(* Bounds of the model *)

\* longest credential drawn for the masking specification
MaxKeyLen == 10
\* largest clock value read by time.Now()
MaxClock == 1

---------------------------------------------------------------------------
(* strings *)

UpperLetters ==
    <<"A","B","C","D","E","F","G","H","I","J","K","L","M",
      "N","O","P","Q","R","S","T","U","V","W","X","Y","Z">>

LowerLetters ==
    <<"a","b","c","d","e","f","g","h","i","j","k","l","m",
      "n","o","p","q","r","s","t","u","v","w","x","y","z">>

\* strings.ToLower on one character
ToLowerChar(c) ==
    IF \E i \in DOMAIN UpperLetters : UpperLetters[i] = c
    THEN LowerLetters[CHOOSE i \in DOMAIN UpperLetters : UpperLetters[i] = c]
    ELSE c

\* strings.ToLower
ToLower(s) == [i \in DOMAIN s |-> ToLowerChar(s[i])]

\* strings.Repeat(c, n)
Repeat(c, n) == [i \in 1..n |-> c]

\* strings.HasPrefix
HasPrefix(s, p) == Len(s) >= Len(p) /\ SubSeq(s, 1, Len(p)) = p

\* s[:n] for n <= len(s)
Take(s, n) == SubSeq(s, 1, n)

\* fmt's %d
Itoa(n) == <<ToString(n)>>

RECURSIVE Concat(_)
\* the concatenation of a sequence of strings
Concat(ss) == IF ss = <<>> THEN <<>> ELSE Head(ss) \o Concat(Tail(ss))

---------------------------------------------------------------------------
(* maskKey, src/main.go:476-481 *)

\* maskKey with the middle one character short (len(key)-9)
maskKeyShortMiddle(k) ==
    IF Len(k) <= 8 THEN <<"*","*","*","*">>
    ELSE SubSeq(k, 1, 4) \o Repeat("*", Len(k) - 9) \o SubSeq(k, Len(k) - 3, Len(k))

maskKey(k) ==
    IF Len(k) <= 8 THEN <<"*","*","*","*">>
    ELSE SubSeq(k, 1, 4) \o Repeat("*", Len(k) - 8) \o SubSeq(k, Len(k) - 3, Len(k))

---------------------------------------------------------------------------
(* JSON values as encoding/json decodes them into interface{}:             *)
(* <<"string", s>>, <<"number", n>>, <<"bool", b>>, <<"null", <<>>>>,      *)
(* <<"array", seq of values>>, <<"object", [key -> value]>>                *)

JStr(s)  == <<"string", s>>
JNum(n)  == <<"number", n>>
JBool(b) == <<"bool", b>>
JNull    == <<"null", <<>>>>
JArr(a)  == <<"array", a>>
JObj(o)  == <<"object", o>>

IsStr(v) == v[1] = "string"
IsObj(v) == v[1] = "object"

EmptyMap == [k \in {} |-> <<>>]

\* fmt.Sprintf("%v", v) for the values the default branch of flattenJSON sees
\* (numbers, booleans, nil, arrays of scalars)
SprintScalar(v) ==
    CASE v[1] = "string" -> v[2]
      [] v[1] = "number" -> Itoa(v[2])
      [] v[1] = "bool"   -> IF v[2] THEN <<"true">> ELSE <<"false">>
      [] v[1] = "null"   -> <<"<nil>">>
      [] OTHER           -> <<"map[...]">>

RECURSIVE JoinSp(_)
JoinSp(a) ==
    IF a = <<>> THEN <<>>
    ELSE IF Len(a) = 1 THEN SprintScalar(a[1])
    ELSE SprintScalar(a[1]) \o <<" ">> \o JoinSp(Tail(a))

Sprintv(v) ==
    IF v[1] = "array" THEN <<"[">> \o JoinSp(v[2]) \o <<"]">>
    ELSE SprintScalar(v)

---------------------------------------------------------------------------
(* flattenJSON, src/main.go:412-429.  The function ranges over two Go maps, *)
(* whose iteration order is unspecified: when a top-level key equals the   *)
(* dotted path of a nested string ("b.c" beside "b": {"c": ...}) the entry *)
(* holds whichever value was written last.  flattenJSON(data) is therefore *)
(* the SET of maps the function can return.                                *)

\* the writes result[k] = v the two loops perform, as pairs <<k, v>>
\* flattenWrites with every nested child stringified, not only the strings
flattenWritesNestedStringified(data) ==
    { <<k, IF IsStr(data[k]) THEN data[k][2] ELSE Sprintv(data[k])>> :
          k \in { t \in DOMAIN data : ~IsObj(data[t]) } }
    \cup UNION { { <<k \o "." \o sk, Sprintv(data[k][2][sk])>> :
                      sk \in DOMAIN data[k][2] } :
                 k \in { t \in DOMAIN data : IsObj(data[t]) } }

flattenWrites(data) ==
    { <<k, IF IsStr(data[k]) THEN data[k][2] ELSE Sprintv(data[k])>> :
          k \in { t \in DOMAIN data : ~IsObj(data[t]) } }
    \cup UNION { { <<k \o "." \o sk, data[k][2][sk][2]>> :
                      sk \in { c \in DOMAIN data[k][2] : IsStr(data[k][2][c]) } } :
                 k \in { t \in DOMAIN data : IsObj(data[t]) } }

flattenJSON(data) ==
    LET W == flattenWrites(data)
        K == { w[1] : w \in W }
    IN  { f \in [K -> { w[2] : w \in W }] : \A k \in K : <<k, f[k]>> \in W }

---------------------------------------------------------------------------
(* renderTemplate, src/main.go:400-410.  A template is a sequence of parts:*)
(*   <<"lit", s>>      literal text s                                       *)
(*   <<"var", name>>   the action {{.name}}                                 *)
(*   <<"chain", name>> an action {{.name.x}}: executing it on a             *)
(*                     map[string]string fails (a field of a string)        *)
(*   <<"bad", s>>      text s that text/template cannot parse ("{{.Key}")   *)

\* the template's own text
TemplateText(tmpl) ==
    Concat([i \in DOMAIN tmpl |->
        CASE tmpl[i][1] = "lit"   -> tmpl[i][2]
          [] tmpl[i][1] = "var"   -> <<"{{." \o tmpl[i][2] \o "}}">>
          [] tmpl[i][1] = "chain" -> <<"{{." \o tmpl[i][2] \o ".x}}">>
          [] OTHER                -> tmpl[i][2]])

renderTemplate(tmpl, data) ==
    IF \E i \in DOMAIN tmpl : tmpl[i][1] = "bad" THEN TemplateText(tmpl)
    ELSE IF \E i \in DOMAIN tmpl : tmpl[i][1] = "chain" THEN TemplateText(tmpl)
    ELSE Concat([i \in DOMAIN tmpl |->
            IF tmpl[i][1] = "lit" THEN tmpl[i][2]
            ELSE IF tmpl[i][2] \in DOMAIN data THEN data[tmpl[i][2]] ELSE <<>>])

---------------------------------------------------------------------------
(* ServiceConfig and the catalog, src/main.go:33-58, 84-93 *)

\* a character string written out
GitHubName == <<"G","i","t","H","u","b">>
CustomName == <<"C","u","s","t","o","m"," ","A","P","I">>
AWSName    == <<"A","W","S">>
ManualName == <<"S","a","l","e","s">>
OtherName  == <<"G","C","P">>

\* the zero value of the struct, as yaml leaves the fields it does not find
ServiceConfig ==
    [ Name |-> <<>>, Method |-> "", URL |-> <<>>, Headers |-> EmptyMap,
      AuthType |-> "", AuthUser |-> <<>>, AuthPass |-> <<>>,
      SuccessStatus |-> 0, ResponseType |-> "", ResponseFields |-> <<>>,
      DetailsFormat |-> <<>>, SuccessField |-> "", ErrorField |-> "",
      SDKType |-> "", Message |-> <<>>, Details |-> <<>> ]

UserDetails == << <<"lit", <<"user: ">>>>, <<"var", "login">> >>

\* the entry the README documents (src/main.go:604-620)
GitHubConfig ==
    [ ServiceConfig EXCEPT
        !.Name = GitHubName, !.Method = "GET",
        !.URL = << <<"lit", <<"https://api.github.com/user">>>> >>,
        !.Headers = ("Authorization" :> << <<"lit", <<"token ">>>>, <<"var", "Key">> >>)
                 @@ ("User-Agent" :> << <<"var", "UserAgent">> >>),
        !.SuccessStatus = 200, !.ResponseType = "json",
        !.ResponseFields = <<"login", "name">>,
        !.DetailsFormat = UserDetails, !.ErrorField = "message" ]

\* an SDK entry for the aws strategy
AWSConfig == [ ServiceConfig EXCEPT !.Name = AWSName, !.Method = "SDK", !.SDKType = "aws" ]

\* an SDK entry whose sdk_type no strategy handles
OtherSDKConfig == [ ServiceConfig EXCEPT !.Name = OtherName, !.Method = "SDK", !.SDKType = "gcp" ]

\* a manual-only entry with its fixed message/detail pair
ManualConfig ==
    [ ServiceConfig EXCEPT
        !.Name = ManualName, !.Method = "MANUAL",
        !.Message = <<"C","a","n","n","o","t"," ","v","e","r","i","f","y">>,
        !.Details = <<"U","s","e"," ","O","A","u","t","h">> ]

\* the HTTP entries a services.yaml can hold, one per combination of
\* response kind, declared fields, details format, success field and error
\* field; the entry's id spells the combination out: "cfg" and five digits
Digits == {"0", "1"}

CustomIds == { <<"c","f","g", rt, rf, df, sf, ef>> :
                 rt \in Digits, rf \in Digits, df \in Digits, sf \in Digits, ef \in Digits }

CustomConfig(id) ==
    [ ServiceConfig EXCEPT
        !.Name = CustomName \o SubSeq(id, 4, 8), !.Method = "POST",
        !.URL = << <<"lit", <<"https://api.example.com/me?key=">>>>, <<"var", "Key">> >>,
        !.AuthType = "basic", !.AuthUser = << <<"var", "Key">> >>,
        !.AuthPass = << <<"var", "Instance">> >>,
        !.SuccessStatus = 200,
        !.ResponseType = IF id[4] = "1" THEN "json" ELSE "raw",
        !.ResponseFields = IF id[5] = "1" THEN <<"login">> ELSE <<>>,
        !.DetailsFormat = IF id[6] = "1" THEN UserDetails ELSE <<>>,
        !.SuccessField = IF id[7] = "1" THEN "ok" ELSE "",
        !.ErrorField = IF id[8] = "1" THEN "error" ELSE "" ]

\* the catalog init() loads; it is never written afterwards
servicesConfig ==
    [ id \in CustomIds |-> CustomConfig(id) ]
    @@ (<<"g","i","t","h","u","b">> :> GitHubConfig)
    @@ (<<"a","w","s">> :> AWSConfig)
    @@ (<<"g","c","p">> :> OtherSDKConfig)
    @@ (<<"s","a","l","e","s">> :> ManualConfig)

---------------------------------------------------------------------------
(* VerificationResult, src/main.go:60-67 *)

\* the zero value
VerificationResult ==
    [ Service |-> <<>>, Key |-> <<>>, Valid |-> FALSE, Message |-> <<>>,
      Details |-> <<>>, Timestamp |-> <<>> ]

\* time.Time.Format(time.RFC3339)
RFC3339(t) == <<"2026-11-02T03:31:0", ToString(t), "Z">>

NoRequest  == [kind |-> "none"]
NoResponse == [kind |-> "none"]

---------------------------------------------------------------------------
(* Inputs *)

FillChars == <<"1","2","3","4","5","6","7","8","9","0","1","2","3","4","5","6","7","8">>

\* credentials (main passes on no empty one): lengths around the masking
\* threshold (8) and the access-key length (20), with and without the AKIA
\* prefix, and one holding a control character
Keys ==
    { Take(<<"A","K","I","A">> \o FillChars, n) : n \in {8, 9, 19, 20, 21} }
    \cup { <<"k">>, Take(<<"A","K","I","B">> \o FillChars, 20),
           <<"k","\n","1","2","3","4","5","6","7">> }

Secrets == { <<>>, <<"s","3","c","r","3","t">> }

\* service ids as typed (never empty): catalog keys, case variants, unknown ids
ServiceIds ==
    DOMAIN servicesConfig
    \cup { <<"A","W","S">>, <<"G","i","t","H","u","b">>, <<"C","F","G","1","1","0","1","1">>,
           <<"f","o","o","b","a","r">>, <<"F","o","o","B","a","r">> }

\* uarand.GetRandom()
UserAgents == { <<"Mozilla/5.0">>, <<"curl/8.0">> }

\* response bodies: JSON objects over the keys ok, error and login, one
\* GitHub error object, and bodies that do not decode into a Go map
Absent == <<"absent", <<>>>>

OkVals    == { Absent, JBool(TRUE), JBool(FALSE), JStr(<<"true">>) }
ErrorVals == { Absent, JStr(<<>>), JStr(<<"B","a","d"," ","T","o","k","e","n">>), JNum(7) }
LoginVals == { Absent, JStr(<<"O","c","t","o">>), JObj([name |-> JStr(<<"O","c","t","o">>)]),
               JArr(<<JNum(1), JStr(<<"x">>)>>), JNull }

\* the object holding the given members, absent ones left out
Object(members) ==
    [ k \in { m \in DOMAIN members : members[m] # Absent } |-> members[k] ]

ObjectBodies ==
    { JObj(Object([ok |-> o, error |-> e, login |-> l])) :
        o \in OkVals, e \in ErrorVals, l \in LoginVals }
    \cup { JObj([message |-> JStr(<<"B","a","d"," ","c","r","e","d","s">>)]) }

\* text that is no JSON, and JSON that is no object
NotJSON == <<"garbage", <<>>>>
OtherBodies == { NotJSON, JNull, JArr(<<JNum(1)>>), JStr(<<"o","k">>) }

Bodies == ObjectBodies \cup OtherBodies

\* bodies sent along with a status other than 200
ErrorPageBodies ==
    { NotJSON,
      JObj([ok |-> JBool(TRUE), login |-> JStr(<<"O","c","t","o">>)]),
      JObj([error |-> JStr(<<"B","a","d"," ","T","o","k","e","n">>)]),
      JObj([message |-> JStr(<<"B","a","d"," ","c","r","e","d","s">>)]) }

Responses ==
    { [status |-> 200, body |-> b] : b \in Bodies }
    \cup { [status |-> st, body |-> b] : st \in {204, 401}, b \in ErrorPageBodies }

\* err.Error() of a failed client.Do
TransportErrors ==
    { <<"dial tcp: lookup api.example.com: no such host">>,
      <<"context deadline exceeded (Client.Timeout exceeded while awaiting headers)">> }

\* the GetCallerIdentity errors raised before any answer arrived
STSTransportErrors ==
    { <<"operation error STS: GetCallerIdentity, request send failed, dial tcp: i/o timeout">> }

\* err.Error() of a failed GetCallerIdentity
STSErrors ==
    { <<"operation error STS: GetCallerIdentity, api error ", "InvalidClientTokenId",
        ": The security token included in the request is invalid.">>,
      <<"operation error STS: GetCallerIdentity, api error ", "SignatureDoesNotMatch",
        ": The request signature we calculated does not match.">>,
      <<"operation error STS: GetCallerIdentity, api error ", "SignatureDoesNotMatch",
        ": retry of ", "InvalidClientTokenId">>,
      <<"operation error STS: GetCallerIdentity, request send failed, dial tcp: i/o timeout">> }

\* err.Error() of a failed config.LoadDefaultConfig; <<>> for no error
ConfigErrors == { <<>>, <<"failed to load shared config file">> }

\* *string fields of the GetCallerIdentity output; Nil for a nil pointer
Nil == <<"nil">>
Accounts == { Nil, <<"123456789012">> }
Arns     == { Nil, <<"arn:aws:iam::123456789012:user/bob">> }

---------------------------------------------------------------------------
(* verifyHTTP, src/main.go:305-398 *)

\* net/url rejects a URL that holds an ASCII control character
HasControlChar(u) == \E i \in DOMAIN u : u[i] \in {"\n", "\t", "\r"}

\* json.Unmarshal(body, &jsonResp) with jsonResp a map[string]interface{}:
\* an object fills the map, null leaves it nil, anything else is an error
UnmarshalOK(body) == body[1] \in {"object", "null"}
Unmarshal(body)   == IF body[1] = "object" THEN body[2] ELSE EmptyMap

\* v, ok := m[f].(string)
IsStringAt(m, f) == f \in DOMAIN m /\ m[f][1] = "string"
\* v, ok := m[f].(bool); v && ok
IsTrueAt(m, f) == f \in DOMAIN m /\ m[f][1] = "bool" /\ m[f][2] = TRUE

\* lines 306-329: the request handed to client.Do, or the result returned
\* when http.NewRequest fails
verifyHTTPSend(serviceConfig, k, r, uas) ==
    LET url == renderTemplate(serviceConfig.URL, "Key" :> k)
    IN  IF HasControlChar(url)
        THEN [ pc |-> "done", sent |-> 0, req |-> NoRequest,
               result |-> [r EXCEPT !.Valid = FALSE,
                                    !.Message = <<"failed to create request">>] ]
        ELSE [ pc |-> "http", sent |-> 1, result |-> r,
               req |-> [ kind |-> "http", method |-> serviceConfig.Method, url |-> url,
                         header |-> [ h \in DOMAIN serviceConfig.Headers |->
                                        renderTemplate(serviceConfig.Headers[h],
                                            ("Key" :> k) @@ ("UserAgent" :> uas[h])) ],
                         auth |-> IF serviceConfig.AuthType = "basic"
                                  THEN << renderTemplate(serviceConfig.AuthUser, "Key" :> k),
                                          renderTemplate(serviceConfig.AuthPass, "Key" :> k) >>
                                  ELSE <<>> ] ]

\* lines 330-334
verifyHTTPTransportError(r, err) ==
    [r EXCEPT !.Valid = FALSE, !.Message = <<"request failed: ">> \o err]

\* lines 363-369
\* hasData with a declared field counted only when its value is not nil
hasDataByValue(fields, flat) ==
    \E i \in DOMAIN fields : fields[i] \in DOMAIN flat /\ flat[fields[i]] # <<"<nil>">>

hasData(fields, flat) ==
    \E i \in DOMAIN fields : fields[i] \in DOMAIN flat

\* lines 339-385: the verdict on a body read under the success status of a
\* json service with declared fields; flat is the outcome of flattenJSON
\* (verifyHTTPBodySuccessFirst: the same with the success field tested
\* before the error field)
verifyHTTPBodySuccessFirst(serviceConfig, r, body, flat) ==
    LET jsonResp == Unmarshal(body)
        valid == [r EXCEPT !.Valid = TRUE, !.Message = <<"valid">>,
                           !.Details = IF serviceConfig.DetailsFormat # <<>>
                                       THEN renderTemplate(serviceConfig.DetailsFormat, flat)
                                       ELSE r.Details]
    IN  IF ~UnmarshalOK(body)
        THEN [r EXCEPT !.Valid = FALSE, !.Message = <<"invalid response format">>]
        ELSE IF serviceConfig.SuccessField # "" /\ IsTrueAt(jsonResp, serviceConfig.SuccessField)
        THEN valid
        ELSE IF /\ serviceConfig.ErrorField # ""
                /\ IsStringAt(jsonResp, serviceConfig.ErrorField)
                /\ jsonResp[serviceConfig.ErrorField][2] # <<>>
        THEN [r EXCEPT !.Valid = FALSE,
                       !.Message = ToLower(jsonResp[serviceConfig.ErrorField][2])]
        ELSE IF serviceConfig.SuccessField # ""
        THEN [r EXCEPT !.Valid = FALSE, !.Message = <<"invalid key">>]
        ELSE IF hasData(serviceConfig.ResponseFields, flat)
        THEN valid
        ELSE [r EXCEPT !.Valid = FALSE, !.Message = <<"invalid key">>]

verifyHTTPBody(serviceConfig, r, body, flat) ==
    LET jsonResp == Unmarshal(body)
        valid == [r EXCEPT !.Valid = TRUE, !.Message = <<"valid">>,
                           !.Details = IF serviceConfig.DetailsFormat # <<>>
                                       THEN renderTemplate(serviceConfig.DetailsFormat, flat)
                                       ELSE r.Details]
    IN  IF ~UnmarshalOK(body)
        THEN [r EXCEPT !.Valid = FALSE, !.Message = <<"invalid response format">>]
        ELSE IF /\ serviceConfig.ErrorField # ""
                /\ IsStringAt(jsonResp, serviceConfig.ErrorField)
                /\ jsonResp[serviceConfig.ErrorField][2] # <<>>
        THEN [r EXCEPT !.Valid = FALSE,
                       !.Message = ToLower(jsonResp[serviceConfig.ErrorField][2])]
        ELSE IF serviceConfig.SuccessField # ""
        THEN IF IsTrueAt(jsonResp, serviceConfig.SuccessField)
             THEN valid
             ELSE [r EXCEPT !.Valid = FALSE, !.Message = <<"invalid key">>]
        ELSE IF hasData(serviceConfig.ResponseFields, flat)
        THEN valid
        ELSE [r EXCEPT !.Valid = FALSE, !.Message = <<"invalid key">>]

\* lines 337-397: the result once the response has arrived
\* (verifyHTTPResponseAny2xx: the same with statuses compared by class)
verifyHTTPResponseAny2xx(serviceConfig, r, status, body, flat) ==
    LET matched == status \div 100 = serviceConfig.SuccessStatus \div 100
        r1 == IF ~matched THEN r
              ELSE IF serviceConfig.ResponseType = "json"
                      /\ Len(serviceConfig.ResponseFields) > 0
              THEN verifyHTTPBody(serviceConfig, r, body, flat)
              ELSE [r EXCEPT !.Valid = TRUE, !.Message = <<"valid">>]
    IN  IF ~matched
        THEN [r1 EXCEPT !.Valid = FALSE,
                        !.Message = <<"invalid (http ">> \o Itoa(status) \o <<")">>]
        ELSE r1

verifyHTTPResponse(serviceConfig, r, status, body, flat) ==
    LET r1 == IF status # serviceConfig.SuccessStatus THEN r
              ELSE IF serviceConfig.ResponseType = "json"
                      /\ Len(serviceConfig.ResponseFields) > 0
              THEN verifyHTTPBody(serviceConfig, r, body, flat)
              ELSE [r EXCEPT !.Valid = TRUE, !.Message = <<"valid">>]
    IN  IF status # serviceConfig.SuccessStatus
        THEN [r1 EXCEPT !.Valid = FALSE,
                        !.Message = <<"invalid (http ">> \o Itoa(status) \o <<")">>]
        ELSE r1

---------------------------------------------------------------------------
(* verifyAWS, src/main.go:431-474 *)

\* strings.Contains(err.Error(), code)
Contains(err, code) == \E i \in DOMAIN err : err[i] = code

AKIA == <<"A","K","I","A">>

\* lines 432-442: no secret supplied
\* (verifyAWSFormatAtLeast20: the same with len(accessKey) >= 20)
verifyAWSFormatAtLeast20(accessKey, r) ==
    IF HasPrefix(accessKey, AKIA) /\ Len(accessKey) >= 20
    THEN [r EXCEPT !.Valid = FALSE,
                   !.Message = <<"key format valid but secret key required">>,
                   !.Details = <<"use: roq -s aws -k AKIA... -secret YOUR_SECRET_KEY">>]
    ELSE [r EXCEPT !.Valid = FALSE, !.Message = <<"invalid aws access key format">>]

verifyAWSFormat(accessKey, r) ==
    IF HasPrefix(accessKey, AKIA) /\ Len(accessKey) = 20
    THEN [r EXCEPT !.Valid = FALSE,
                   !.Message = <<"key format valid but secret key required">>,
                   !.Details = <<"use: roq -s aws -k AKIA... -secret YOUR_SECRET_KEY">>]
    ELSE [r EXCEPT !.Valid = FALSE, !.Message = <<"invalid aws access key format">>]

\* lines 432-455: up to the GetCallerIdentity call
verifyAWSSend(accessKey, secretKey, r, cfgErr) ==
    IF secretKey = <<>>
    THEN [ pc |-> "done", sent |-> 0, req |-> NoRequest,
           result |-> verifyAWSFormat(accessKey, r) ]
    ELSE IF cfgErr # <<>>
    THEN [ pc |-> "done", sent |-> 0, req |-> NoRequest,
           result |-> [r EXCEPT !.Valid = FALSE,
                                !.Message = <<"failed to create aws config: ">> \o cfgErr] ]
    ELSE [ pc |-> "sts", sent |-> 1, result |-> r,
           req |-> [ kind |-> "sts", accessKey |-> accessKey, secretKey |-> secretKey,
                     region |-> "us-east-1" ] ]

\* lines 456-466
\* (verifyAWSErrorUnclassifiedValid: the same with only the two classified
\* error codes making the result invalid)
verifyAWSErrorUnclassifiedValid(r, err) ==
    [r EXCEPT !.Valid = ~(Contains(err, "InvalidClientTokenId")
                          \/ Contains(err, "SignatureDoesNotMatch")),
              !.Message = IF Contains(err, "InvalidClientTokenId")
                          THEN <<"invalid credentials (access key not found)">>
                          ELSE IF Contains(err, "SignatureDoesNotMatch")
                          THEN <<"invalid credentials (incorrect secret key)">>
                          ELSE <<"verification failed: ">> \o err]

verifyAWSError(r, err) ==
    [r EXCEPT !.Valid = FALSE,
              !.Message = IF Contains(err, "InvalidClientTokenId")
                          THEN <<"invalid credentials (access key not found)">>
                          ELSE IF Contains(err, "SignatureDoesNotMatch")
                          THEN <<"invalid credentials (incorrect secret key)">>
                          ELSE <<"verification failed: ">> \o err]

\* lines 468-473
verifyAWSIdentity(r, account, arn) ==
    [r EXCEPT !.Valid = TRUE, !.Message = <<"valid">>,
              !.Details = IF account # Nil /\ arn # Nil
                          THEN <<"account: ">> \o account \o <<", arn: ">> \o arn
                          ELSE r.Details]

---------------------------------------------------------------------------
(* verifyAPIKey, src/main.go:269-303 *)

HeaderNames == {"Authorization", "User-Agent"}

\* line 270: the catalog key looked up for a service id
\* (catalogKeyExact: the id used as typed)
catalogKeyExact(s) == s

catalogKey(s) == ToLower(s)

\* lines 272-277: the result for an id the catalog does not hold
unsupportedService(s, t) ==
    [ VerificationResult EXCEPT
        !.Service = ToLower(s),
        !.Valid = FALSE,
        !.Message = <<"unsupported service: ">> \o s,
        !.Timestamp = RFC3339(t) ]

\* lines 280-284: the result every strategy starts from
\* (newResultRawKey: the same with the credential left unmasked)
newResultRawKey(serviceConfig, k, t) ==
    [ VerificationResult EXCEPT
        !.Service = ToLower(serviceConfig.Name),
        !.Key = k,
        !.Timestamp = RFC3339(t) ]

newResult(serviceConfig, k, t) ==
    [ VerificationResult EXCEPT
        !.Service = ToLower(serviceConfig.Name),
        !.Key = maskKey(k),
        !.Timestamp = RFC3339(t) ]

\* lines 300-302
\* (notImplementedNoMessage: the same without the message)
notImplementedNoMessage(r) == [r EXCEPT !.Valid = FALSE]

notImplemented(r) ==
    [r EXCEPT !.Valid = FALSE, !.Message = <<"verification method not implemented">>]

\* the call up to its first outbound request, or to its return when it
\* makes none: [pc, sent, req, result]
verifyAPIKey(catalog, s, k, sec, t, uas, cfgErr) ==
    IF catalogKey(s) \notin DOMAIN catalog
    THEN [ pc |-> "done", sent |-> 0, req |-> NoRequest,
           result |-> unsupportedService(s, t) ]
    ELSE
      LET serviceConfig == catalog[catalogKey(s)]
          r == newResult(serviceConfig, k, t)
      IN  IF serviceConfig.Method \in {"GET", "POST"}
          THEN verifyHTTPSend(serviceConfig, k, r, uas)
          ELSE IF serviceConfig.Method = "SDK" /\ serviceConfig.SDKType = "aws"
          THEN verifyAWSSend(k, sec, r, cfgErr)
          ELSE IF serviceConfig.Method = "MANUAL"
          THEN [ pc |-> "done", sent |-> 0, req |-> NoRequest,
                 result |-> [r EXCEPT !.Valid = FALSE,
                                      !.Message = ToLower(serviceConfig.Message),
                                      !.Details = ToLower(serviceConfig.Details)] ]
          ELSE [ pc |-> "done", sent |-> 0, req |-> NoRequest,
                 result |-> notImplemented(r) ]

---------------------------------------------------------------------------
(* The process: main() makes one verifyAPIKey call (src/main.go:95-123)    *)

Init ==
    /\ pc = "idle"
    /\ service = <<>>
    /\ key = <<>>
    /\ secret = <<>>
    /\ now = 0
    /\ result = VerificationResult
    /\ req = NoRequest
    /\ resp = NoResponse
    /\ flattened = EmptyMap
    /\ requests = 0

\* main calls verifyAPIKey(service, key, secret); the call runs to its
\* return or to its outbound request
Call ==
    /\ pc = "idle"
    /\ \E s \in ServiceIds, k \in Keys, sec \in Secrets, t \in 0..MaxClock,
          uas \in [HeaderNames -> UserAgents], cfgErr \in ConfigErrors :
         LET out == verifyAPIKey(servicesConfig, s, k, sec, t, uas, cfgErr)
         IN  /\ service' = s
             /\ key' = k
             /\ secret' = sec
             /\ now' = t
             /\ pc' = out.pc
             /\ result' = out.result
             /\ req' = out.req
             /\ requests' = requests + out.sent
    /\ UNCHANGED <<resp, flattened>>

\* client.Do returns a response: verifyHTTP reads it and returns
HTTPRespond ==
    /\ pc = "http"
    /\ \E r \in Responses :
         \E flat \in flattenJSON(Unmarshal(r.body)) :
            /\ resp' = [kind |-> "http", status |-> r.status, body |-> r.body]
            /\ flattened' = flat
            /\ result' = verifyHTTPResponse(servicesConfig[catalogKey(service)], result,
                                            r.status, r.body, flat)
    /\ pc' = "done"
    /\ req' = NoRequest
    /\ UNCHANGED <<service, key, secret, now, requests>>

\* HTTPFail with a retry: the request is sent again after a transport failure
HTTPFailRetry ==
    /\ pc = "http"
    /\ requests <= 2
    /\ \E err \in TransportErrors :
         /\ resp' = [kind |-> "error", via |-> "http", transport |-> TRUE, err |-> err]
         /\ result' = verifyHTTPTransportError(result, err)
    /\ requests' = requests + 1
    /\ UNCHANGED <<pc, req, service, key, secret, now, flattened>>

\* client.Do returns an error (DNS, TLS, refused connection, timeout)
HTTPFail ==
    /\ pc = "http"
    /\ \E err \in TransportErrors :
         /\ resp' = [kind |-> "error", via |-> "http", transport |-> TRUE, err |-> err]
         /\ result' = verifyHTTPTransportError(result, err)
    /\ pc' = "done"
    /\ req' = NoRequest
    /\ UNCHANGED <<service, key, secret, now, flattened, requests>>

\* GetCallerIdentity returns the caller's identity
STSRespond ==
    /\ pc = "sts"
    /\ \E account \in Accounts, arn \in Arns :
         /\ resp' = [kind |-> "identity", account |-> account, arn |-> arn]
         /\ result' = verifyAWSIdentity(result, account, arn)
    /\ pc' = "done"
    /\ req' = NoRequest
    /\ UNCHANGED <<service, key, secret, now, flattened, requests>>

\* GetCallerIdentity returns an error
STSFail ==
    /\ pc = "sts"
    /\ \E err \in STSErrors :
         /\ resp' = [kind |-> "error", via |-> "sts",
                      transport |-> err \in STSTransportErrors, err |-> err]
         /\ result' = verifyAWSError(result, err)
    /\ pc' = "done"
    /\ req' = NoRequest
    /\ UNCHANGED <<service, key, secret, now, flattened, requests>>

Next == Call \/ HTTPRespond \/ HTTPFail \/ STSRespond \/ STSFail

Spec == Init /\ [][Next]_vars

---------------------------------------------------------------------------
(* maskKey applied to every credential up to MaxKeyLen characters *)

MaskAlphabet == {"a", "b"}
MaskKeys == UNION { [1..n -> MaskAlphabet] : n \in 0..MaxKeyLen }

InitMask ==
    /\ pc = "mask"
    /\ key \in MaskKeys
    /\ service = <<>>
    /\ secret = <<>>
    /\ now = 0
    /\ result = VerificationResult
    /\ req = NoRequest
    /\ resp = NoResponse
    /\ flattened = EmptyMap
    /\ requests = 0

ApplyMask ==
    /\ pc = "mask"
    /\ pc' = "masked"
    /\ result' = [result EXCEPT !.Key = maskKey(key)]
    /\ UNCHANGED <<service, key, secret, now, req, resp, flattened, requests>>

NextMask == ApplyMask

SpecMask == InitMask /\ [][NextMask]_vars

---------------------------------------------------------------------------
(* flattenJSON applied to objects over the keys a, b and b.c *)

FlattenA  == { Absent, JStr(<<"x">>), JNum(5), JBool(TRUE), JNull,
               JArr(<<JNum(1), JStr(<<"y">>)>>) }
FlattenB  == { Absent, JStr(<<"x">>), JArr(<<JStr(<<"y">>)>>),
               JObj(EmptyMap),
               JObj([c |-> JStr(<<"y">>), d |-> JNum(5)]),
               JObj([c |-> JObj([e |-> JStr(<<"z">>)]), d |-> JBool(FALSE)]),
               JObj([c |-> JArr(<<JStr(<<"y">>)>>), d |-> JNull]) }
FlattenBC == { Absent, JStr(<<"w">>), JNum(7) }

FlattenInputs ==
    { Object(("a" :> va) @@ ("b" :> vb) @@ ("b.c" :> vbc)) :
        va \in FlattenA, vb \in FlattenB, vbc \in FlattenBC }

InitFlatten ==
    /\ pc = "flatten"
    /\ \E o \in FlattenInputs : resp = [kind |-> "json", body |-> JObj(o)]
    /\ service = <<>>
    /\ key = <<>>
    /\ secret = <<>>
    /\ now = 0
    /\ result = VerificationResult
    /\ req = NoRequest
    /\ flattened = EmptyMap
    /\ requests = 0

ApplyFlatten ==
    /\ pc = "flatten"
    /\ pc' = "flattened"
    /\ flattened' \in flattenJSON(resp.body[2])
    /\ UNCHANGED <<service, key, secret, now, result, req, resp, requests>>

NextFlatten == ApplyFlatten

SpecFlatten == InitFlatten /\ [][NextFlatten]_vars

---------------------------------------------------------------------------
(* Properties *)

Known      == ToLower(service) \in DOMAIN servicesConfig
Config     == servicesConfig[ToLower(service)]
Stars4     == <<"*","*","*","*">>
HTTPDone   == pc = "done" /\ resp.kind = "http"
BodyObject == resp.body[1] = "object"

\* C1 as claimed: every returned result, on every branch, carries the masked
\* form of the supplied credential in its key field and a timestamp.
C1_KeyMaskedOnEveryBranch ==
    pc = "done" => result.Key = maskKey(key) /\ result.Timestamp # <<>>

\* C1 amended: every returned result carries a timestamp; on every branch of
\* a service the catalog holds (HTTP, AWS, MANUAL, not implemented) the key
\* field is the masked credential, and the unknown-service result has an
\* empty key field.
C1_KeyMaskedForKnownService ==
    pc = "done" =>
        /\ result.Timestamp # <<>>
        /\ Known => result.Key = maskKey(key)
        /\ ~Known => result.Key = <<>>

C1_Witness ==
    /\ HTTPDone /\ Len(key) > 8
    /\ result.Key = Take(key, 4) \o Repeat("*", Len(key) - 8) \o SubSeq(key, Len(key) - 3, Len(key))

\* C2: maskKey returns "****" for a credential of at most 8 characters; for a
\* longer one the output has the credential's length, its first 4 and last 4
\* characters, and '*' everywhere between them.
C2_MaskKey ==
    pc = "masked" =>
        LET m == result.Key
            n == Len(key)
        IN  /\ n <= 8 => m = Stars4
            /\ n > 8 =>
                 /\ Len(m) = n
                 /\ \A i \in 1..4 : m[i] = key[i]
                 /\ \A i \in (n - 3)..n : m[i] = key[i]
                 /\ \A i \in 5..(n - 4) : m[i] = "*"

C2_Witness == pc = "masked" /\ Len(key) = 10 /\ result.Key[5] = "*" /\ result.Key[6] = "*"

\* C3: for a service of the catalog, whatever the credential, the secret and
\* the remote outcome, the call goes on until it returns, and the returned
\* result has a non-empty service, message and timestamp.
C3_ResultComplete ==
    /\ pc \in {"http", "sts"} => ENABLED Next
    /\ (pc = "done" /\ Known) =>
          /\ result.Service # <<>>
          /\ result.Message # <<>>
          /\ result.Timestamp # <<>>

C3_Witness ==
    /\ pc = "done" /\ Known /\ Config.Method = "SDK" /\ Config.SDKType # "aws"
    /\ result.Message # <<>>

\* the body holds a non-empty string under the configured error field
ErrorReported ==
    /\ Config.ErrorField # ""
    /\ Config.ErrorField \in DOMAIN resp.body[2]
    /\ resp.body[2][Config.ErrorField][1] = "string"
    /\ resp.body[2][Config.ErrorField][2] # <<>>

\* the body holds boolean true under the configured success field, or holds
\* one of the declared response fields
SuccessIndicated ==
    \/ /\ Config.SuccessField # ""
       /\ Config.SuccessField \in DOMAIN resp.body[2]
       /\ resp.body[2][Config.SuccessField] = JBool(TRUE)
    \/ \E i \in DOMAIN Config.ResponseFields :
          Config.ResponseFields[i] \in DOMAIN resp.body[2]

\* C4 as claimed: for any HTTP service whose config names an error field, a
\* success-status response whose JSON object holds a success indication and a
\* non-empty error string is invalid, with the error string lower-cased as
\* message.
C4_ErrorWinsForEveryConfig ==
    (HTTPDone /\ resp.status = Config.SuccessStatus /\ BodyObject
        /\ ErrorReported /\ SuccessIndicated) =>
       /\ result.Valid = FALSE
       /\ result.Message = ToLower(resp.body[2][Config.ErrorField][2])

\* C4 amended: the same, for a service whose response type is json and whose
\* config declares at least one response field (only then is the body read).
C4_ErrorWinsWhenBodyIsRead ==
    (HTTPDone /\ resp.status = Config.SuccessStatus /\ BodyObject
        /\ Config.ResponseType = "json" /\ Len(Config.ResponseFields) > 0
        /\ ErrorReported /\ SuccessIndicated) =>
       /\ result.Valid = FALSE
       /\ result.Message = ToLower(resp.body[2][Config.ErrorField][2])

C4_Witness ==
    /\ HTTPDone /\ resp.status = Config.SuccessStatus /\ BodyObject
    /\ Config.ResponseType = "json" /\ Len(Config.ResponseFields) > 0
    /\ Config.SuccessField = "ok" /\ Config.ErrorField = "error"
    /\ "ok" \in DOMAIN resp.body[2] /\ resp.body[2]["ok"] = JBool(TRUE)
    /\ "login" \in DOMAIN resp.body[2]
    /\ result.Valid = FALSE
    /\ result.Message = <<"b","a","d"," ","t","o","k","e","n">>

\* C5: an id whose lower-cased form is no catalog key yields valid=false,
\* message "unsupported service: " followed by the id as typed, no details
\* and no outbound request; an id that differs from a catalog key only in
\* letter case resolves to that key's entry.
C5_UnknownService ==
    pc # "idle" =>
        /\ ~Known =>
             /\ pc = "done"
             /\ result.Valid = FALSE
             /\ result.Message = <<"unsupported service: ">> \o service
             /\ result.Details = <<>>
             /\ requests = 0 /\ req = NoRequest /\ resp = NoResponse
        /\ Known =>
             /\ result.Service = ToLower(Config.Name)
             /\ result.Message # <<"unsupported service: ">> \o service

C5_Witness ==
    /\ pc = "done"
    /\ service = <<"F","o","o","B","a","r">>
    /\ result.Message = <<"unsupported service: ","F","o","o","B","a","r">>

\* C6: a response whose status differs from the config's success_status is
\* invalid with message "invalid (http <status>)", whatever the body and the
\* config's response kind, fields, success field and error field.
C6_StatusMismatch ==
    (HTTPDone /\ resp.status # Config.SuccessStatus) =>
       /\ result.Valid = FALSE
       /\ result.Message = <<"invalid (http ", ToString(resp.status), ")">>

C6_Witness ==
    /\ HTTPDone /\ resp.status = 204 /\ BodyObject
    /\ "ok" \in DOMAIN resp.body[2] /\ Config.SuccessField = "ok"
    /\ result.Message = <<"invalid (http ", "204", ")">>

NoRequestBranch ==
    \/ ~Known
    \/ Known /\ Config.Method = "MANUAL"
    \/ Known /\ Config.Method \notin {"GET", "POST", "MANUAL"}
             /\ ~(Config.Method = "SDK" /\ Config.SDKType = "aws")

\* C7 as claimed: at most one outbound request per call (HTTP request or STS
\* call) and no retry; after a transport-level failure the call has ended
\* with valid=false, message "request failed: <cause>", no details, and one
\* request made; unknown-service, MANUAL and not-implemented calls make none.
C7_RequestFailedAfterAnyTransportFailure ==
    /\ requests <= 1
    /\ (resp.kind = "error" /\ resp.transport) =>
          /\ pc = "done"
          /\ requests = 1
          /\ result.Valid = FALSE
          /\ result.Message = <<"request failed: ">> \o resp.err
          /\ result.Details = <<>>
    /\ (pc # "idle" /\ NoRequestBranch) => (pc = "done" /\ requests = 0)

\* C7 amended: as claimed, except that the message "request failed: <cause>"
\* is that of a failed HTTP request; a transport-level failure of the STS
\* call ends the call with message "verification failed: <cause>".
C7_AtMostOneRequest ==
    /\ requests <= 1
    /\ (resp.kind = "error" /\ resp.transport) =>
          /\ pc = "done"
          /\ requests = 1
          /\ result.Valid = FALSE
          /\ resp.via = "http" => result.Message = <<"request failed: ">> \o resp.err
          /\ resp.via = "sts" => result.Message = <<"verification failed: ">> \o resp.err
          /\ result.Details = <<>>
    /\ (pc # "idle" /\ NoRequestBranch) => (pc = "done" /\ requests = 0)

C7_Witness ==
    /\ pc = "done" /\ resp.kind = "error" /\ resp.via = "http" /\ requests = 1
    /\ result.Message[1] = "request failed: "

\* C8: under the success status, for a json service with declared fields, an
\* object body and no error message: with a success field configured the
\* result is valid exactly when the body holds boolean true under it;
\* without one it is valid exactly when a declared field is a key of the
\* flattened body; the message is "valid" or "invalid key" accordingly.
C8_Verdict ==
    (HTTPDone /\ resp.status = Config.SuccessStatus /\ BodyObject
        /\ Config.ResponseType = "json" /\ Len(Config.ResponseFields) > 0
        /\ ~ErrorReported) =>
       /\ Config.SuccessField # "" =>
            (result.Valid <=> /\ Config.SuccessField \in DOMAIN resp.body[2]
                              /\ resp.body[2][Config.SuccessField] = JBool(TRUE))
       /\ Config.SuccessField = "" =>
            (result.Valid <=> \E i \in DOMAIN Config.ResponseFields :
                                  Config.ResponseFields[i] \in DOMAIN flattened)
       /\ result.Message = IF result.Valid THEN <<"valid">> ELSE <<"invalid key">>

C8_Witness ==
    /\ HTTPDone /\ resp.status = Config.SuccessStatus /\ BodyObject
    /\ Config.ResponseType = "json" /\ Config.ResponseFields = <<"login">>
    /\ Config.SuccessField = "" /\ ~ErrorReported
    /\ "login" \in DOMAIN resp.body[2] /\ resp.body[2]["login"] = JNull
    /\ result.Valid /\ result.Message = <<"valid">>

\* the top-level keys of the flattened object whose value has one of the kinds
TopLevel(kinds) == { k \in DOMAIN resp.body[2] : resp.body[2][k][1] \in kinds }

\* the dotted paths of the string-valued children of top-level objects
NestedStrings ==
    UNION { { k \o "." \o c : c \in { d \in DOMAIN resp.body[2][k][2] :
                                          resp.body[2][k][2][d][1] = "string" } } :
            k \in TopLevel({"object"}) }

\* the values the claim allows under key k
EntryValues(k, stringified) ==
    { resp.body[2][t][2] : t \in TopLevel({"string"}) \cap {k} }
    \cup { Sprintv(resp.body[2][t]) : t \in TopLevel(stringified) \cap {k} }
    \cup UNION { { resp.body[2][p][2][c][2] :
                      c \in { d \in DOMAIN resp.body[2][p][2] :
                                 resp.body[2][p][2][d][1] = "string" /\ p \o "." \o d = k } } :
                 p \in TopLevel({"object"}) }

\* C9 as claimed: the flattened map holds exactly the top-level strings
\* (unchanged), the string children of top-level objects (under
\* parent.child) and the top-level numbers, booleans and nulls
\* (stringified); a top-level array produces no entry.
C9_ArraysDropped ==
    pc = "flattened" =>
        /\ DOMAIN flattened
             = TopLevel({"string", "number", "bool", "null"}) \cup NestedStrings
        /\ \A k \in DOMAIN flattened :
             flattened[k] \in EntryValues(k, {"number", "bool", "null"})

\* C9 amended: as claimed, except that a top-level array does produce an
\* entry, under its key, stringified like the other non-string values; arrays
\* inside a top-level object are dropped.  Where a top-level key is also the
\* parent.child path of a nested string, the entry holds one of the two.
C9_TopLevelArraysStringified ==
    pc = "flattened" =>
        /\ DOMAIN flattened
             = TopLevel({"string", "number", "bool", "null", "array"}) \cup NestedStrings
        /\ \A k \in DOMAIN flattened :
             flattened[k] \in EntryValues(k, {"number", "bool", "null", "array"})

C9_Witness ==
    /\ pc = "flattened"
    /\ resp.body[2] = ("a" :> JArr(<<JNum(1), JStr(<<"y">>)>>))
                      @@ ("b" :> JObj([c |-> JStr(<<"y">>), d |-> JNum(5)]))
    /\ flattened = ("a" :> <<"[", "1", " ", "y", "]">>) @@ ("b.c" :> <<"y">>)

FormatOnlyCall ==
    /\ pc # "idle" /\ Known
    /\ Config.Method = "SDK" /\ Config.SDKType = "aws"
    /\ secret = <<>>

WellFormedAccessKey ==
    /\ Len(key) = 20
    /\ key[1] = "A" /\ key[2] = "K" /\ key[3] = "I" /\ key[4] = "A"

\* C10: an aws call with an empty secret makes no request and returns
\* valid=false; the message is "key format valid but secret key required",
\* with a usage string as details, exactly when the access key starts with
\* AKIA and is 20 characters long, and "invalid aws access key format"
\* otherwise.
C10_FormatOnly ==
    FormatOnlyCall =>
        /\ pc = "done" /\ requests = 0 /\ req = NoRequest /\ resp = NoResponse
        /\ result.Valid = FALSE
        /\ WellFormedAccessKey =>
             /\ result.Message = <<"key format valid but secret key required">>
             /\ result.Details = <<"use: roq -s aws -k AKIA... -secret YOUR_SECRET_KEY">>
        /\ ~WellFormedAccessKey =>
             /\ result.Message = <<"invalid aws access key format">>
             /\ result.Details = <<>>

C10_Witness ==
    /\ FormatOnlyCall /\ WellFormedAccessKey
    /\ result.Message = <<"key format valid but secret key required">>

\* C11: a result is valid only once the call has returned after its one
\* remote call completed successfully -- an HTTP response whose status
\* equals success_status, or an identity returned by GetCallerIdentity --
\* and then its message is exactly "valid"; the unknown-service, MANUAL,
\* not-implemented, AWS format-only, request-construction-failure,
\* transport-failure and status-mismatch paths never return valid=true.
C11_ValidOnlyAfterSuccess ==
    /\ result.Valid =>
          /\ pc = "done"
          /\ requests = 1
          /\ result.Message = <<"valid">>
          /\ \/ resp.kind = "http" /\ resp.status = Config.SuccessStatus
             \/ resp.kind = "identity"
    /\ (pc = "done" /\ (resp.kind \in {"none", "error"}
                        \/ (resp.kind = "http" /\ resp.status # Config.SuccessStatus))) =>
          result.Valid = FALSE

C11_Witness ==
    /\ pc = "done" /\ result.Valid /\ result.Message = <<"valid">>
    /\ resp.kind = "identity" /\ requests = 1
    /\ result.Details # <<>>

===========================================================================
